---- MODULE Spec2Model ----
(***************************************************************************)
(* The PubMed harvesting script in its two variants:                       *)
(*   "new" = src/src/pubmed.py   (total-count paging, has_github_link,     *)
(*                                store file removed before each run)      *)
(*   "old" = src/pubmed.py       (short-page paging only, no store reset)  *)
(* The remote endpoints and the DuckDB store are the environment.  Texts   *)
(* are sequences of tokens; a token is a run of characters that the link   *)
(* pattern treats uniformly.  An absent value (Python None, SQL NULL) is   *)
(* the empty set, a present value x is the singleton {x}.                  *)
(***************************************************************************)
EXTENDS Integers, Sequences, FiniteSets, TLC

\* ---- bounds of the model
MaxRecords == 4      \* the endpoint holds 0..MaxRecords matching records
MaxTotal == 4        \* the Count field, when present, is in 0..MaxTotal
MaxPage == 2         \* batch_size (page size) in 1..MaxPage
MaxFetch == 2        \* fetch_size in 1..MaxFetch
MaxRuns == 2         \* the script is run at most MaxRuns times in a row
MaxElems == 2        \* sub-documents of the link specification have 1..MaxElems elements

VARIABLES
    \* environment, fixed for a behaviour
    variant,         \* "new" or "old"
    corpus,          \* the matching records at the endpoint: sequence of article kinds
    count_field,     \* the Count field of the first search page (None: no such field)
    count_drift,     \* what later pages add to the Count field
    batch_size,      \* get_all_publications(batch_size=...)
    fetch_size,      \* get_all_publications(fetch_size=...)
    \* the script
    pc, run, all_pubmed_ids, start_index, total_count, fetch_index, publications,
    abort_cause,
    \* the store file pubmed_results.db
    db_exists, table, summary,
    \* observation
    trace,           \* remote requests and sleeps of the current run, in order
    inserted,        \* rows inserted by the current run
    row_counts,      \* row count of the table at the end of each completed run
    \* find_github_link applied to one sub-document
    article, link_result, link_done

envVars == <<variant, corpus, count_field, count_drift, batch_size, fetch_size>>
runVars == <<pc, run, all_pubmed_ids, start_index, total_count, fetch_index,
             publications, abort_cause>>
dbVars == <<db_exists, table, summary>>
obsVars == <<trace, inserted, row_counts>>
linkVars == <<article, link_result, link_done>>
vars == <<envVars, runVars, dbVars, obsVars, linkVars>>

\* ---- absent / present values
None == {}
Some(x) == {x}
Get(o) == CHOOSE x \in o : TRUE

Min(a, b) == IF a <= b THEN a ELSE b
Max(a, b) == IF a >= b THEN a ELSE b

\* ---- the link pattern  https?://(?:www\.)?github\.com/[^\s/]+/[^\s/]+
Scheme(t) == t \in {"http:", "https:"}
Www(t) == t = "www."
Host(t) == t = "github.com"
NotSpaceSlash(t) == t \notin {" ", "/"}

At(text, i) == IF i >= 1 /\ i <= Len(text) THEN text[i] ELSE " "

RECURSIVE RunEnd(_, _)
\* greedy [^\s/]+ from position i: the position of the last token of the run, i-1 if none
RunEnd(text, i) ==
    IF i <= Len(text) /\ NotSpaceSlash(text[i]) THEN RunEnd(text, i + 1) ELSE i - 1

\* the end of the match of the pattern that starts at position i, 0 if none
MatchAt(text, i) ==
    LET h == IF Www(At(text, i + 3)) THEN i + 4 ELSE i + 3
        o == RunEnd(text, h + 2)
        r == RunEnd(text, o + 2)
    IN  IF /\ Scheme(At(text, i))
           /\ At(text, i + 1) = "/"
           /\ At(text, i + 2) = "/"
           /\ Host(At(text, h))
           /\ At(text, h + 1) = "/"
           /\ o >= h + 2
           /\ At(text, o + 1) = "/"
           /\ r >= o + 2
        THEN r ELSE 0

\* re.search(github_regex, text): the leftmost match, None if there is none
re_search(text) ==
    LET starts == {i \in 1..Len(text) : MatchAt(text, i) > 0}
    IN  IF starts = {} THEN None
        ELSE LET i == CHOOSE s \in starts : \A s2 \in starts : s <= s2
             IN  Some(SubSeq(text, i, MatchAt(text, i)))

\* ---- sub-documents: the elements of one PubmedArticle in document order
Elem(tag, text, tail) == [tag |-> tag, text |-> text, tail |-> tail]

RECURSIVE FindFrom(_, _)
FindFrom(art, k) ==
    IF k > Len(art) THEN None
    ELSE LET m == IF art[k].text # None THEN re_search(Get(art[k].text)) ELSE None
         IN  IF m # None THEN m ELSE FindFrom(art, k + 1)

\* find_github_link(article): article.iter() visits the elements in document order
find_github_link(art) == FindFrom(art, 1)

\* article.find(".//<tag>"): the first element with the tag, None if there is none
find(art, tag) ==
    LET hits == {k \in 1..Len(art) : art[k].tag = tag}
    IN  IF hits = {} THEN None
        ELSE Some(art[CHOOSE k \in hits : \A k2 \in hits : k <= k2])

\* article.find(...).text on a missing element raises AttributeError
ParseRaises(art) == find(art, "PMID") = None \/ find(art, "ArticleTitle") = None

HasGithubLinkAlways(github_link) == TRUE
HasGithubLink(github_link) == github_link # None

ParseArticle(art) ==
    LET abstract_element == find(art, "AbstractText")
        github_link == find_github_link(art)
    IN  [pmid |-> Get(find(art, "PMID")).text,
         title |-> Get(find(art, "ArticleTitle")).text,
         abstract |-> IF abstract_element # None THEN Get(abstract_element).text ELSE None,
         github_link |-> github_link,
         has_github_link |-> HasGithubLink(github_link)]

\* the old variant's record has no has_github_link key
ParseArticleOld(art) ==
    LET abstract_element == find(art, "AbstractText")
    IN  [pmid |-> Get(find(art, "PMID")).text,
         title |-> Get(find(art, "ArticleTitle")).text,
         abstract |-> IF abstract_element # None THEN Get(abstract_element).text ELSE None,
         github_link |-> find_github_link(art)]


\* ---- the remote endpoints
Kinds == {"linked", "plain", "untitled"}
Statuses == {200, 500}
StatusOkAlways(status) == TRUE
StatusOk(status) == status = 200

IdOf(k) == ToString(k)

LinkText == <<"see", " ", "https:", "/", "/", "github.com", "/", "acme", "/", "tool", " ", "code">>

\* the sub-document the fetch endpoint returns for record k
ArticleOf(kind, id) ==
    LET head == <<Elem("PubmedArticle", None, None), Elem("PMID", Some(<<id>>), None)>>
    IN  CASE kind = "linked" ->
               head \o <<Elem("ArticleTitle", Some(<<"title">>), None),
                         Elem("Abstract", None, None),
                         Elem("AbstractText", Some(LinkText), None)>>
          [] kind = "plain" ->
               head \o <<Elem("ArticleTitle", Some(<<"title">>), None)>>
          [] kind = "untitled" ->
               head \o <<Elem("Abstract", None, None),
                         Elem("AbstractText", Some(<<"text">>), None)>>

\* esearch: the identifiers at positions retstart .. retstart+retmax-1 of the matches
Page(retstart, retmax) ==
    LET last == Min(retstart + retmax, Len(corpus))
    IN  IF retstart + 1 > last THEN <<>>
        ELSE [k \in 1..(last - retstart) |-> IdOf(retstart + k)]

\* esearch: the Count field of the page
ReportedCount(retstart) ==
    IF count_field = None \/ retstart = 0 THEN count_field
    ELSE Some(Get(count_field) + count_drift)

\* efetch: one sub-document per requested identifier
Efetch(ids) ==
    [j \in 1..Len(ids) |->
        LET k == CHOOSE n \in 1..Len(corpus) : IdOf(n) = ids[j]
        IN  ArticleOf(corpus[k], ids[j])]

Event(kind, status, retstart, ids, count) ==
    [kind |-> kind, status |-> status, retstart |-> retstart, ids |-> ids, count |-> count]
SleepEvent == Event("sleep", 0, 0, <<>>, None)

\* ---- get_all_publications
\* if total_count is None: total_count = batch_total_count
FirstObservedLatest(current, batch_total_count) == batch_total_count
FirstObserved(current, batch_total_count) ==
    IF current = None THEN batch_total_count ELSE current

\* the break test of the paging loop, new variant
LoopBreakShortOnly(n_all, total, n_page, size) == n_page < size
LoopBreak(n_all, total, n_page, size) == n_all >= total \/ n_page < size
\* the break test of the paging loop, old variant
LoopBreakOld(n_page, size) == n_page < size

\* where the script is after the paging loop: range(0, len(all_pubmed_ids), fetch_size)
AfterIndex(i, n) == IF i < n THEN "fetch" ELSE "sink"

Abort(cause) ==
    /\ pc' = "aborted"
    /\ abort_cause' = cause

\* one iteration of the paging loop, new variant: search_pubmed and the loop body
SearchPage ==
    /\ pc = "search"
    /\ variant = "new"
    /\ \E status \in Statuses :
         LET pubmed_ids == Page(start_index, batch_size)
             batch_total_count == ReportedCount(start_index)
             new_total == FirstObserved(total_count, batch_total_count)
             new_all == all_pubmed_ids \o pubmed_ids
         IN  IF ~StatusOk(status)
             THEN /\ trace' = Append(trace, Event("search", status, start_index, <<>>, None))
                  /\ Abort("search_status")
                  /\ UNCHANGED <<all_pubmed_ids, start_index, total_count, fetch_index>>
             ELSE /\ trace' = Append(trace, Event("search", status, start_index,
                                                  pubmed_ids, batch_total_count))
                  /\ total_count' = new_total
                  /\ all_pubmed_ids' = new_all
                  /\ IF new_total = None
                     THEN \* len(all_pubmed_ids) >= None raises TypeError
                          /\ Abort("TypeError")
                          /\ UNCHANGED <<start_index, fetch_index>>
                     ELSE IF LoopBreak(Len(new_all), Get(new_total), Len(pubmed_ids), batch_size)
                     THEN /\ pc' = AfterIndex(0, Len(new_all))
                          /\ fetch_index' = 0
                          /\ UNCHANGED <<start_index, abort_cause>>
                     ELSE /\ start_index' = start_index + batch_size
                          /\ pc' = "search_sleep"
                          /\ UNCHANGED <<fetch_index, abort_cause>>
    /\ UNCHANGED <<envVars, run, publications, dbVars, inserted, row_counts, linkVars>>

\* one iteration of the paging loop, old variant
SearchPageOld ==
    /\ pc = "search"
    /\ variant = "old"
    /\ \E status \in Statuses :
         LET pubmed_ids == Page(start_index, batch_size)
             new_all == all_pubmed_ids \o pubmed_ids
         IN  IF ~StatusOk(status)
             THEN /\ trace' = Append(trace, Event("search", status, start_index, <<>>, None))
                  /\ Abort("search_status")
                  /\ UNCHANGED <<all_pubmed_ids, start_index, fetch_index>>
             ELSE /\ trace' = Append(trace, Event("search", status, start_index,
                                                  pubmed_ids, ReportedCount(start_index)))
                  /\ all_pubmed_ids' = new_all
                  /\ IF LoopBreakOld(Len(pubmed_ids), batch_size)
                     THEN /\ pc' = AfterIndex(0, Len(new_all))
                          /\ fetch_index' = 0
                          /\ UNCHANGED <<start_index, abort_cause>>
                     ELSE /\ start_index' = start_index + batch_size
                          /\ pc' = "search_sleep"
                          /\ UNCHANGED <<fetch_index, abort_cause>>
    /\ UNCHANGED <<envVars, run, total_count, publications, dbVars, inserted, row_counts,
                   linkVars>>

\* time.sleep(1) at the end of a paging iteration
SearchSleep ==
    /\ pc = "search_sleep"
    /\ trace' = Append(trace, SleepEvent)
    /\ pc' = "search"
    /\ UNCHANGED <<envVars, run, all_pubmed_ids, start_index, total_count, fetch_index,
                   publications, abort_cause, dbVars, inserted, row_counts, linkVars>>

\* one iteration of the fetch loop up to its sleep: fetch_pubmed_details on one batch
FetchBatch ==
    /\ pc = "fetch"
    /\ \E status \in Statuses :
         LET batch_pubmed_ids ==
                 SubSeq(all_pubmed_ids, fetch_index + 1,
                        Min(fetch_index + fetch_size, Len(all_pubmed_ids)))
             root == Efetch(batch_pubmed_ids)
             articles == [j \in 1..Len(root) |->
                            IF variant = "new" THEN ParseArticle(root[j])
                            ELSE ParseArticleOld(root[j])]
         IN  /\ trace' = Append(trace, Event("fetch", status, fetch_index,
                                             batch_pubmed_ids, None))
             /\ IF ~StatusOk(status)
                THEN /\ Abort("fetch_status")
                     /\ UNCHANGED publications
                ELSE IF \E j \in 1..Len(root) : ParseRaises(root[j])
                THEN /\ Abort("AttributeError")
                     /\ UNCHANGED publications
                ELSE /\ publications' = publications \o articles
                     /\ pc' = "fetch_sleep"
                     /\ UNCHANGED abort_cause
    /\ UNCHANGED <<envVars, run, all_pubmed_ids, start_index, total_count, fetch_index,
                   dbVars, inserted, row_counts, linkVars>>

\* time.sleep(1) at the end of a fetch iteration, then the next value of i
FetchSleep ==
    /\ pc = "fetch_sleep"
    /\ trace' = Append(trace, SleepEvent)
    /\ fetch_index' = fetch_index + fetch_size
    /\ pc' = AfterIndex(fetch_index + fetch_size, Len(all_pubmed_ids))
    /\ UNCHANGED <<envVars, run, all_pubmed_ids, start_index, total_count, publications,
                   abort_cause, dbVars, inserted, row_counts, linkVars>>

\* ---- the sink stage
\* the table the connection sees after os.remove (when the file exists) and
\* CREATE TABLE IF NOT EXISTS
TableAfterReset(exists, rows) == <<>>
\* the old variant connects to the file as it is
TableAfterConnect(exists, rows) == IF exists THEN rows ELSE <<>>

\* if publications: con.executemany(INSERT ...)
Sink ==
    /\ pc = "sink"
    /\ variant = "new"
    /\ db_exists' = TRUE
    /\ table' = TableAfterReset(db_exists, table) \o publications
    /\ inserted' = inserted + Len(publications)
    /\ pc' = "summary"
    /\ UNCHANGED <<envVars, run, all_pubmed_ids, start_index, total_count, fetch_index,
                   publications, abort_cause, summary, trace, row_counts, linkVars>>

SinkOld ==
    /\ pc = "sink"
    /\ variant = "old"
    /\ db_exists' = TRUE
    /\ table' = TableAfterConnect(db_exists, table) \o publications
    /\ inserted' = inserted + Len(publications)
    /\ pc' = "summary"
    /\ UNCHANGED <<envVars, run, all_pubmed_ids, start_index, total_count, fetch_index,
                   publications, abort_cause, summary, trace, row_counts, linkVars>>

RECURSIVE CountRows(_, _, _)
\* the number of rows k..Len(rows) with has_github_link = flag
CountRows(rows, k, flag) ==
    IF k > Len(rows) THEN 0
    ELSE (IF rows[k].has_github_link = flag THEN 1 ELSE 0) + CountRows(rows, k + 1, flag)

\* SUM(CASE WHEN <has_github_link = flag> THEN 1 ELSE 0 END): NULL over no rows
SqlSumCase(rows, flag) == IF Len(rows) = 0 THEN None ELSE Some(CountRows(rows, 1, flag))

\* COUNT(github_link): the rows whose github_link is not NULL
SqlCountLink(rows) == Cardinality({k \in 1..Len(rows) : rows[k].github_link # None})

\* the summary query and con.close()
Summary ==
    /\ pc = "summary"
    /\ variant = "new"
    /\ summary' = Some([total |-> Len(table),
                        with_github |-> SqlSumCase(table, TRUE),
                        without_github |-> SqlSumCase(table, FALSE)])
    /\ row_counts' = Append(row_counts, Len(table))
    /\ pc' = "done"
    /\ UNCHANGED <<envVars, run, all_pubmed_ids, start_index, total_count, fetch_index,
                   publications, abort_cause, db_exists, table, trace, inserted, linkVars>>

SummaryOld ==
    /\ pc = "summary"
    /\ variant = "old"
    /\ summary' = Some([total |-> Len(table), with_github |-> SqlCountLink(table)])
    /\ row_counts' = Append(row_counts, Len(table))
    /\ pc' = "done"
    /\ UNCHANGED <<envVars, run, all_pubmed_ids, start_index, total_count, fetch_index,
                   publications, abort_cause, db_exists, table, trace, inserted, linkVars>>

\* the script is started again; the store file stays as the last run left it
Restart ==
    /\ pc \in {"done", "aborted"}
    /\ run < MaxRuns
    /\ run' = run + 1
    /\ pc' = "search"
    /\ all_pubmed_ids' = <<>>
    /\ start_index' = 0
    /\ total_count' = None
    /\ fetch_index' = 0
    /\ publications' = <<>>
    /\ abort_cause' = "none"
    /\ summary' = None
    /\ trace' = <<>>
    /\ inserted' = 0
    /\ UNCHANGED <<envVars, db_exists, table, row_counts, linkVars>>

SeqsUpTo(S, n) == UNION {[1..k -> S] : k \in 0..n}

LinkIdle ==
    /\ article = <<>>
    /\ link_result = None
    /\ link_done = FALSE

Init ==
    /\ variant \in {"new", "old"}
    /\ corpus \in SeqsUpTo(Kinds, MaxRecords)
    /\ count_field \in {None} \cup {Some(t) : t \in 0..MaxTotal}
    /\ count_drift \in {0, 1}
    /\ batch_size \in 1..MaxPage
    /\ fetch_size \in 1..MaxFetch
    /\ pc = "search"
    /\ run = 1
    /\ all_pubmed_ids = <<>>
    /\ start_index = 0
    /\ total_count = None
    /\ fetch_index = 0
    /\ publications = <<>>
    /\ abort_cause = "none"
    /\ db_exists = FALSE
    /\ table = <<>>
    /\ summary = None
    /\ trace = <<>>
    /\ inserted = 0
    /\ row_counts = <<>>
    /\ LinkIdle

Next ==
    \/ SearchPage
    \/ SearchPageOld
    \/ SearchSleep
    \/ FetchBatch
    \/ FetchSleep
    \/ Sink
    \/ SinkOld
    \/ Summary
    \/ SummaryOld
    \/ Restart

Spec == Init /\ [][Next]_vars


\* ---- find_github_link on its own: one sub-document, one application
Texts ==
    { LinkText,
      <<"HTTPS:", "/", "/", "GitHub.com", "/", "acme", "/", "tool">>,
      <<"http:", "/", "/", "www.", "github.com", "/", "lab", "/", "kit", "/", "tree">>,
      <<"https:", "/", "/", "github.com", "/", "acme">>,
      <<"text">> }
OptTexts == {None} \cup {Some(t) : t \in Texts}
Elems == {Elem(tag, text, tail) :
             tag \in {"ArticleTitle", "AbstractText"}, text \in OptTexts, tail \in OptTexts}

PipelineIdle ==
    /\ variant = "new"
    /\ corpus = <<>>
    /\ count_field = None
    /\ count_drift = 0
    /\ batch_size = 1
    /\ fetch_size = 1
    /\ pc = "idle"
    /\ run = 1
    /\ all_pubmed_ids = <<>>
    /\ start_index = 0
    /\ total_count = None
    /\ fetch_index = 0
    /\ publications = <<>>
    /\ abort_cause = "none"
    /\ db_exists = FALSE
    /\ table = <<>>
    /\ summary = None
    /\ trace = <<>>
    /\ inserted = 0
    /\ row_counts = <<>>

InitLink ==
    /\ PipelineIdle
    /\ article \in UNION {[1..n -> Elems] : n \in 1..MaxElems}
    /\ link_result = None
    /\ link_done = FALSE

ApplyFind ==
    /\ ~link_done
    /\ link_result' = find_github_link(article)
    /\ link_done' = TRUE
    /\ UNCHANGED <<envVars, runVars, dbVars, obsVars, article>>

NextLink == ApplyFind

SpecLink == InitLink /\ [][NextLink]_vars


\* ---- properties

IsSearch(e) == e.kind = "search"
IsRequest(e) == e.kind \in {"search", "fetch"}
Searches == SelectSeq(trace, IsSearch)

RECURSIVE IdsUpTo(_, _)
\* the identifiers received in events 1..k of the sequence evs
IdsUpTo(evs, k) == IF k = 0 THEN 0 ELSE Len(evs[k].ids) + IdsUpTo(evs, k - 1)

CeilDiv(a, b) == (a + b - 1) \div b

\* the paging loop of the current run has ended by its break
PagingEnded ==
    \/ pc \in {"fetch", "fetch_sleep", "sink", "summary", "done"}
    \/ pc = "aborted" /\ abort_cause \in {"fetch_status", "AttributeError"}

\* the endpoint of C1: at least one match, the same Count on every page
C1_Case ==
    /\ variant = "new"
    /\ PagingEnded
    /\ Len(corpus) >= 1
    /\ count_field # None
    /\ count_drift = 0

\* C1 as stated: when the paging loop ends the number of accumulated
\* identifiers equals min(T, M).
C1_Original ==
    C1_Case => Len(all_pubmed_ids) = Min(Get(count_field), Len(corpus))

\* C1 amended: whole pages are accumulated, so when the paging loop ends the
\* number of accumulated identifiers equals
\* min(M, max(1, ceil(T / pageSize)) * pageSize).
C1_WholePages ==
    C1_Case =>
        Len(all_pubmed_ids) =
            Min(Len(corpus), Max(1, CeilDiv(Get(count_field), batch_size)) * batch_size)

\* a run that paged more than once and ended with more identifiers than Count
C1_Witness ==
    /\ C1_Case
    /\ start_index > 0
    /\ Len(all_pubmed_ids) > Get(count_field)

\* C2: the summary over the table after the sink stage ran on N records of
\* which K have has_github_link is total = N, with_github = K,
\* without_github = N - K, all three integers.
C2_Summary ==
    (variant = "new" /\ pc = "done") =>
        LET N == Len(publications)
            K == Cardinality({k \in 1..N : publications[k].has_github_link})
        IN  summary = Some([total |-> N,
                            with_github |-> Some(K),
                            without_github |-> Some(N - K)])

\* C3: in both variants the table has the same number of rows after every
\* completed run against the unchanged endpoint.
C3_FullRefresh ==
    \A k \in 2..Len(row_counts) : row_counts[k] = row_counts[k - 1]

\* C4: a fetch request answered with a non-success status is the last remote
\* request of the run, the run is aborted, and the run has inserted no row.
C4_FetchFailureAborts ==
    variant = "new" =>
        \A k \in 1..Len(trace) :
            (trace[k].kind = "fetch" /\ trace[k].status # 200) =>
                /\ k = Len(trace)
                /\ pc = "aborted"
                /\ inserted = 0

\* a fetch failure after at least one batch was fetched successfully
C4_Witness ==
    /\ variant = "new"
    /\ abort_cause = "fetch_status"
    /\ Len(publications) > 0
    /\ run = 2
    /\ Len(table) > 0

\* C5: every produced Record and every inserted row has has_github_link true
\* exactly when github_link is present.
C5_FlagIffLink ==
    variant = "new" =>
        /\ \A k \in 1..Len(publications) :
               publications[k].has_github_link <=> publications[k].github_link # None
        /\ \A k \in 1..Len(table) :
               table[k].has_github_link <=> table[k].github_link # None

\* rows with and without a link have been inserted
C5_Witness ==
    /\ variant = "new"
    /\ pc = "done"
    /\ \E k \in 1..Len(table) : table[k].github_link # None
    /\ \E k \in 1..Len(table) : table[k].github_link = None

\* C6: with no Count field on the first page the paging does not fail and ends
\* at the first short page with the identifiers of every page requested.
C6_NoCountField ==
    (variant = "new" /\ count_field = None) =>
        /\ abort_cause # "TypeError"
        /\ PagingEnded => all_pubmed_ids = Page(0, Len(corpus))

\* C7: every sub-document of a successful fetch response yields a Record,
\* whether or not it has a title or an abstract element.
C7_MissingFieldTolerated ==
    variant = "new" =>
        /\ abort_cause # "AttributeError"
        /\ \A k \in 1..Len(trace) :
               (trace[k].kind = "fetch" /\ trace[k].status = 200) =>
                   Len(publications) >= trace[k].retstart + Len(trace[k].ids)

\* C8: a further search page is requested only at the offset advanced by
\* batch_size, only while the accumulated count is below the first-observed
\* Count and the page before held batch_size identifiers; when the first page
\* holds Count identifiers there is one search request and the accumulated
\* identifiers are that page, in order.
C8_PagingPolicy ==
    variant = "new" =>
        LET s == Searches
        IN  /\ \A k \in 1..Len(s) :
                   IF k = 1 THEN s[k].retstart = 0
                   ELSE /\ s[k].retstart = s[k - 1].retstart + batch_size
                        /\ s[1].count # None
                        /\ IdsUpTo(s, k - 1) < Get(s[1].count)
                        /\ Len(s[k - 1].ids) = batch_size
            /\ (/\ Len(s) >= 1
                /\ s[1].status = 200
                /\ s[1].count # None
                /\ Len(s[1].ids) = Get(s[1].count))
               => /\ Len(s) = 1
                  /\ pc \notin {"search", "search_sleep"}
                  /\ all_pubmed_ids = s[1].ids

\* a run of three search pages whose later pages report another Count
C8_Witness ==
    /\ variant = "new"
    /\ Len(Searches) >= 3
    /\ count_drift = 1
    /\ pc = "done"

\* C10: no remote request directly follows another remote request.
C10_SleepBetweenRequests ==
    variant = "new" =>
        \A k \in 1..(Len(trace) - 1) :
            IsRequest(trace[k]) => trace[k + 1].kind = "sleep"

\* ---- properties of find_github_link (SpecLink)

Lower(t) ==
    CASE t = "HTTPS:" -> "https:"
      [] t = "GitHub.com" -> "github.com"
      [] OTHER -> t
LowerText(text) == [k \in 1..Len(text) |-> Lower(text[k])]

\* every text of the sub-document: the text and the tail of every element
AllTexts(art) ==
    UNION {art[k].text \cup art[k].tail : k \in 1..Len(art)}

SubTexts(art) ==
    UNION {{SubSeq(t, i, j) : i \in 1..Len(t), j \in 1..Len(t)} : t \in AllTexts(art)}

\* the matches of the pattern, ignoring case, in the texts of the sub-document
MatchesIgnoringCase(art) ==
    {m \in SubTexts(art) : re_search(LowerText(m)) = Some(LowerText(m))}

\* C9: a link is returned exactly when some text of the sub-document holds a
\* match of the pattern ignoring case, and the link returned is such a match.
C9_AnyTextIgnoringCase ==
    link_done =>
        /\ link_result # None <=> \E t \in AllTexts(article) : re_search(LowerText(t)) # None
        /\ link_result \subseteq MatchesIgnoringCase(article)

====
